---- MODULE Spec2Model ----
(***************************************************************************)
(* State-machine model of data_analyzer.py: the DataAnalyzer session       *)
(* (self.df, self.filename), its loader, reporter, cleaner and visualizer  *)
(* methods, and the menu loop of main().                                   *)
(*                                                                         *)
(* Encodings.                                                              *)
(*  - Text (a path, a menu line, a file name) is a sequence of one-        *)
(*    character strings, so that suffix, lower() and strip() are computed. *)
(*  - A Python Optional is a sequence of length <= 1: <<>> is None and     *)
(*    <<x>> is x.                                                          *)
(*  - A DataFrame is [dtypes |-> one dtype per column, rows |-> the rows], *)
(*    a row being one cell per column.  A cell is [k |-> kind, v |-> Int]: *)
(*    kind "na" is a missing value (NaN / NaT / None), "num" a number      *)
(*    stored in units of 1/200 (so a 2-decimal price and the mean of two   *)
(*    such values are exact), "txt" a string (v is its rank in sorted      *)
(*    order), "date" a timestamp (v is the day number).                    *)
(***************************************************************************)
EXTENDS Integers, Sequences, FiniteSets

VARIABLES
    df,         \* self.df: Optional DataFrame
    filename,   \* self.filename: Optional text
    pc,         \* position of main(): "prompt", "exited" or "crashed"
    choice,     \* main()'s local: the stripped line read at the last prompt
    out,        \* what the last menu command printed, returned and computed
    dashboard,  \* analysis_dashboard.png on disk: Optional content
    report      \* analysis_report.txt on disk: Optional content

vars == <<df, filename, pc, choice, out, dashboard, report>>

\* ------------------------------------------------------------------ bounds

\* Largest number of rows of a table the environment hands to the loader.
MaxRows == 3

\* ------------------------------------------------------------------- cells

NA == [k |-> "na", v |-> 0]

Num(n) == [k |-> "num", v |-> 200 * n]

Txt(i) == [k |-> "txt", v |-> i]

Date(d) == [k |-> "date", v |-> d]

North == Txt(2)

South == Txt(6)

isnull(c) == c.k = "na"

\* ------------------------------------------------------------------- text

\* str.lower() on the characters that occur in the modelled paths.
LowerChar(c) ==
    CASE c = "C" -> "c"
      [] c = "S" -> "s"
      [] c = "V" -> "v"
      [] c = "X" -> "x"
      [] c = "L" -> "l"
      [] OTHER -> c

lower(s) == [i \in 1..Len(s) |-> LowerChar(s[i])]

\* str.rfind(ch): the last index of ch in s, 0 when there is none (1-based).
rfind(s, ch) ==
    LET hits == {i \in 1..Len(s) : s[i] = ch}
    IN  IF hits = {} THEN 0 ELSE CHOOSE i \in hits : \A j \in hits : j <= i

\* Path(filepath).name: the last component of the path.
PathName(filepath) ==
    SubSeq(filepath, rfind(filepath, "/") + 1, Len(filepath))

\* Path(filepath).suffix: from the last dot of the name, unless that dot leads
\* or ends the name.
PathSuffix(filepath) ==
    LET name == PathName(filepath)
        i == rfind(name, ".")
    IN  IF 1 < i /\ i < Len(name) THEN SubSeq(name, i, Len(name)) ELSE <<>>

RECURSIVE lstrip(_)
lstrip(s) == IF s # <<>> /\ Head(s) = " " THEN lstrip(Tail(s)) ELSE s

RECURSIVE rstrip(_)
rstrip(s) ==
    IF s # <<>> /\ s[Len(s)] = " " THEN rstrip(SubSeq(s, 1, Len(s) - 1)) ELSE s

\* str.strip()
strip(s) == rstrip(lstrip(s))

\* -------------------------------------------------------------- DataFrame

Option(x) == <<x>>

None == <<>>

Frame(dtypes, rows) == [dtypes |-> dtypes, rows |-> rows]

\* len(df), df.shape[0]
NRows(t) == Len(t.rows)

\* df.shape[1]
NCols(t) == Len(t.dtypes)

\* df[col] as the sequence of its cells.
Column(t, col) == [i \in 1..NRows(t) |-> t.rows[i][col]]

\* df[col].isnull().sum()
NullCount(t, col) == Cardinality({i \in 1..NRows(t) : isnull(t.rows[i][col])})

RECURSIVE SumOver(_, _)
SumOver(t, col) ==
    IF col = 0 THEN 0 ELSE NullCount(t, col) + SumOver(t, col - 1)

\* df.isnull().sum().sum(): the missing cells of all columns, of every dtype.
isnull_sum_sum(t) == SumOver(t, NCols(t))

\* df.select_dtypes(include=kinds).columns: the column positions, in order.
select_dtypes(t, kinds) == {col \in 1..NCols(t) : t.dtypes[col] \in kinds}

\* df.duplicated(): row i is marked when an earlier row equals it on every
\* column (pandas matches a missing value with a missing value here).
duplicated(t) ==
    [i \in 1..NRows(t) |-> \E j \in 1..(i - 1) : t.rows[j] = t.rows[i]]

\* df.duplicated().sum()
duplicated_sum(t) == Cardinality({i \in 1..NRows(t) : duplicated(t)[i]})

RECURSIVE KeepFirst(_, _)
KeepFirst(rows, kept) ==
    IF rows = <<>> THEN kept
    ELSE IF \E j \in 1..Len(kept) : kept[j] = Head(rows)
         THEN KeepFirst(Tail(rows), kept)
         ELSE KeepFirst(Tail(rows), Append(kept, Head(rows)))

RECURSIVE Reverse(_)
Reverse(s) == IF s = <<>> THEN <<>> ELSE Append(Reverse(Tail(s)), Head(s))

\* Mutant of drop_duplicates: keep='last'.
drop_duplicates_keep_last(t) ==
    Frame(t.dtypes, Reverse(KeepFirst(Reverse(t.rows), <<>>)))

\* df.drop_duplicates(): keep='first', order kept, dtypes kept.
drop_duplicates(t) == Frame(t.dtypes, KeepFirst(t.rows, <<>>))

RECURSIVE Insert(_, _)
Insert(sorted, x) ==
    IF sorted = <<>> THEN <<x>>
    ELSE IF x <= Head(sorted) THEN <<x>> \o sorted
         ELSE <<Head(sorted)>> \o Insert(Tail(sorted), x)

RECURSIVE SortValues(_)
SortValues(s) == IF s = <<>> THEN <<>> ELSE Insert(SortValues(Tail(s)), Head(s))

\* The payloads of the non-missing cells of a column, in row order (dropna).
NotNull(cells) ==
    LET present == SelectSeq(cells, LAMBDA c : ~isnull(c))
    IN  [i \in 1..Len(present) |-> present[i].v]

\* Series.median(): skips missing values; the middle value, or the mean of the
\* two middle values; NaN for a column with no value.
median(cells) ==
    LET s == SortValues(NotNull(cells))
        n == Len(s)
    IN  IF n = 0 THEN NA
        ELSE IF n % 2 = 1 THEN [k |-> "num", v |-> s[(n + 1) \div 2]]
        ELSE [k |-> "num", v |-> (s[n \div 2] + s[n \div 2 + 1]) \div 2]

\* Series.mode(): the most frequent non-missing values, sorted; empty for a
\* column with no value.
mode(cells) ==
    LET vals == NotNull(cells)
        count(x) == Cardinality({i \in 1..Len(vals) : vals[i] = x})
        seen == {vals[i] : i \in 1..Len(vals)}
        top == {x \in seen : \A y \in seen : count(y) <= count(x)}
        RECURSIVE Asc(_)
        Asc(S) == IF S = {} THEN <<>>
                  ELSE LET m == CHOOSE x \in S : \A y \in S : x <= y
                       IN  <<m>> \o Asc(S \ {m})
    IN  Asc(top)

\* df[col].fillna(value, inplace=True): every missing cell of the column
\* becomes value (filling with NaN changes nothing).  This is the call's
\* effect under pandas before 3.0; under copy-on-write (pandas 3.0) the
\* chained call fills a temporary Series and the table keeps its missing
\* values, which makes the table differ from what clean_data prints in more
\* cases than the ones found here, and in none fewer.
fillna(t, col, value) ==
    Frame(t.dtypes,
          [i \in 1..NRows(t) |->
              [c \in 1..NCols(t) |->
                  IF c = col /\ isnull(t.rows[i][c]) THEN value
                  ELSE t.rows[i][c]]])

\* ------------------------------------------------------------ environment

\* The dtypes pandas infers for a column read from a file.
Dtypes == {"number", "object", "datetime"}

CellsOf(dtype) ==
    CASE dtype = "number" -> {NA, Num(100), Num(200)}
      [] dtype = "object" -> {NA, North, South}
      [] dtype = "datetime" -> {NA, Date(1)}

\* A column's inferred dtype agrees with its cells: a column with no value at
\* all is read as float64 ("number"), and a file with a header and no row gives
\* object columns.
WellTyped(t) ==
    \A col \in 1..NCols(t) :
        IF NRows(t) = 0 THEN t.dtypes[col] = "object"
        ELSE t.dtypes[col] = "number" \/ NullCount(t, col) < NRows(t)

Schemas ==
    {<<a>> : a \in Dtypes} \cup {<<a, b>> : a \in Dtypes, b \in Dtypes}

RowsOf(dtypes) ==
    {r \in [1..Len(dtypes) -> UNION {CellsOf(d) : d \in Dtypes}] :
        \A c \in 1..Len(dtypes) : r[c] \in CellsOf(dtypes[c])}

\* The tables of the files on disk during a menu session.
SalesFrame ==
    Frame(<<"object", "number">>,
          << <<North, Num(100)>>, <<South, Num(200)>>, <<North, Num(100)>> >>)

GapsFrame ==
    Frame(<<"object", "number">>,
          << <<North, Num(100)>>, <<North, NA>>, <<NA, Num(100)>> >>)

EmptyColumnFrame ==
    Frame(<<"number", "number">>,
          << <<Num(100), NA>>, <<Num(200), NA>> >>)

DatesFrame ==
    Frame(<<"datetime", "object">>,
          << <<Date(1), North>>, <<NA, South>> >>)

DatesOnlyFrame == Frame(<<"datetime">>, << <<Date(1)>>, <<Date(2)>> >>)

\* What pd.read_excel returns for a worksheet without any cell: DataFrame(),
\* no column and no row.
EmptySheetFrame == Frame(<<>>, <<>>)

\* pd.read_csv never infers a datetime column; pd.read_excel does.
CsvFrames == {SalesFrame, GapsFrame, EmptyColumnFrame}

ExcelFrames == {DatesFrame, DatesOnlyFrame, EmptySheetFrame}

\* What a read does: raise (missing file, permission, malformed content) or
\* return a table.
Raised == [raised |-> TRUE, frame |-> Frame(<<>>, <<>>)]

Returned(t) == [raised |-> FALSE, frame |-> t]

read_csv == {Raised} \cup {Returned(t) : t \in CsvFrames}

read_excel == {Raised} \cup {Returned(t) : t \in ExcelFrames}

\* Lines typed at "Enter file path: ".
FilePaths ==
    { <<"d", "a", "t", "a", ".", "t", "x", "t">>,
      <<"a", ".", "C", "S", "V">>,
      <<" ", "d", "/", "a", ".", "C", "S", "V", " ">>,
      <<"c", ".", "x", "l", "s", "x">>,
      <<"e", ".", "X", "L", "S">>,
      <<".", "c", "s", "v">>,
      <<>> }

\* Lines typed at "Enter your choice (1-8): ".
Choices ==
    { <<"1">>, <<"2">>, <<"3">>, <<"4">>, <<"5">>, <<"6">>, <<"7">>, <<"8">>,
      <<" ", "5", " ">>, <<" ", "8">>,
      <<"9">>, <<"0", "1">>, <<"a">>, <<>> }

\* ---------------------------------------------------------------- outputs

\* What one menu command did: the branch of main() taken, the method's return
\* value, the lines printed (by their fixed text), the path load_data was
\* called with and what its read did, and the values clean_data and
\* create_visualizations computed.
Output(cmd, ret, msgs) ==
    [cmd |-> cmd, ret |-> ret, msgs |-> msgs,
     filepath |-> None, read |-> "none",
     initial_rows |-> 0, duplicates |-> 0, missing |-> 0, final_rows |-> 0,
     deduped |-> None, panels |-> {}]

\* ------------------------------------------------------- DataAnalyzer: load

\* A method returns to main(), which prompts again.
Returns == pc' = "prompt"

\* A method raises; main() catches nothing, so the process ends with a
\* traceback.
Raises == pc' = "crashed"

\* The session after load_data(filepath) succeeded with table t.
Loaded(filepath, t) ==
    [df |-> Option(t),
     filename |-> Option(PathName(filepath)),
     out |-> [Output("1", "True", <<"Successfully loaded", "Shape">>) EXCEPT
                 !.filepath = Option(filepath), !.read = "returned"]]

\* Mutant of load_failed: the failing branch drops the session's table.
load_failed_resets(filepath, msg, read) ==
    /\ out' = [Output("1", "False", <<msg>>) EXCEPT
                  !.filepath = Option(filepath), !.read = read]
    /\ df' = None
    /\ filename' = None
    /\ Returns

\* Lines 26-28 and 34-36: the message is printed and False returned; nothing
\* was assigned.
load_failed(filepath, msg, read) ==
    /\ out' = [Output("1", "False", <<msg>>) EXCEPT
                  !.filepath = Option(filepath), !.read = read]
    /\ UNCHANGED <<df, filename>>
    /\ Returns

load_data(filepath) ==
    LET file_ext == lower(PathSuffix(filepath))
        reads == IF file_ext = <<".", "c", "s", "v">> THEN read_csv
                 ELSE IF file_ext \in {<<".", "x", "l", "s", "x">>,
                                       <<".", "x", "l", "s">>} THEN read_excel
                 ELSE {}
    IN  /\ IF reads = {}
           THEN load_failed(filepath, "Unsupported file type", "none")
           ELSE \E r \in reads :
                   IF r.raised
                   THEN load_failed(filepath, "Error loading file", "raised")
                   ELSE /\ df' = Loaded(filepath, r.frame).df
                        /\ filename' = Loaded(filepath, r.frame).filename
                        /\ out' = Loaded(filepath, r.frame).out
                        /\ Returns
        /\ UNCHANGED <<dashboard, report>>

\* ----------------------------------------------------- create_sample_data

\* periods=100: the rows of the sample table.
SampleRows == 100

\* Stand-in for numpy's seeded generator (np.random.seed(42)): the k-th draw,
\* uniform over lo..hi-1.  The stream is fixed, as the seeded one is; its
\* values are not numpy's.
Draw(k, lo, hi) == lo + (((42 + k * 7919) % 10007) % (hi - lo))

\* round(x, 2) of x = a / b, in hundredths (ties to even).
Round2(a, b) ==
    LET q == (100 * a) \div b
        r == (100 * a) % b
    IN  IF 2 * r < b THEN q
        ELSE IF 2 * r > b THEN q + 1
        ELSE IF q % 2 = 0 THEN q ELSE q + 1

SampleFrame ==
    LET Regions == <<North, South, Txt(1), Txt(7)>>
        Products == <<Txt(3), Txt(4), Txt(5)>>
        sales(i) == Draw(2 * SampleRows + i, 1000, 10000)
        units(i) == Draw(3 * SampleRows + i, 10, 100)
    IN  Frame(<<"datetime", "object", "object", "number", "number", "number">>,
              [i \in 1..SampleRows |->
                  << Date(i),
                     Regions[1 + Draw(i, 0, 4)],
                     Products[1 + Draw(SampleRows + i, 0, 3)],
                     Num(sales(i)),
                     Num(units(i)),
                     [k |-> "num", v |-> 2 * Round2(sales(i), units(i))] >>])

SampleName ==
    <<"s", "a", "m", "p", "l", "e", "_", "s", "a", "l", "e", "s", "_",
      "d", "a", "t", "a", ".", "c", "s", "v">>

\* Mutant of create_sample_data: self.filename is not assigned.
create_sample_data_unnamed ==
    /\ df' = Option(SampleFrame)
    /\ UNCHANGED filename
    /\ out' = Output("2", "True", <<"Sample dataset created">>)
    /\ Returns
    /\ UNCHANGED <<dashboard, report>>

create_sample_data ==
    /\ df' = Option(SampleFrame)
    /\ filename' = Option(SampleName)
    /\ out' = Output("2", "True", <<"Sample dataset created">>)
    /\ Returns
    /\ UNCHANGED <<dashboard, report>>

\* ---------------------------------------------------------------- Reporter

show_overview ==
    /\ out' = IF df = None
              THEN Output("3", "None", <<"No data loaded. Please load a file first.">>)
              ELSE Output("3", "None",
                          <<"DATASET OVERVIEW",
                            IF isnull_sum_sum(df[1]) > 0 THEN "Missing Values"
                            ELSE "No missing values found">>)
    /\ UNCHANGED <<df, filename, dashboard, report>>
    /\ Returns

show_statistics ==
    /\ out' = IF df = None
              THEN Output("4", "None", <<"No data loaded.">>)
              ELSE LET numeric_cols == select_dtypes(df[1], {"number"})
                       categorical_cols ==
                           select_dtypes(df[1], {"object", "category", "str"})
                   IN  Output("4", "None",
                              <<"STATISTICAL SUMMARY">>
                              \o (IF numeric_cols # {}
                                  THEN <<"Numeric Columns">> ELSE <<>>)
                              \o (IF categorical_cols # {}
                                  THEN <<"Categorical Columns">> ELSE <<>>))
    /\ UNCHANGED <<df, filename, dashboard, report>>
    /\ Returns

\* The report file after open(report_file, 'w') and the writes up to the
\* row and column counts (lines 218-228); complete once lines 230-237 ran.
Report(complete) ==
    Option([dataset |-> filename,
            rows |-> NRows(df[1]),
            columns |-> NCols(df[1]),
            complete |-> complete])

\* Mutant of export_report: the file is opened for writing before the check
\* for a table.
export_report_opens_first ==
    IF df = None
    THEN /\ report' = Option([dataset |-> filename, rows |-> 0, columns |-> 0,
                              complete |-> FALSE])
         /\ out' = Output("7", "None", <<"No data loaded.">>)
         /\ UNCHANGED <<df, filename, dashboard>>
         /\ Returns
    ELSE /\ report' = Report(TRUE)
         /\ out' = Output("7", "None", <<"Report exported to">>)
         /\ UNCHANGED <<df, filename, dashboard>>
         /\ Returns

\* self.df.describe() (line 234) raises ValueError("Cannot describe a
\* DataFrame without columns") on a table without columns; the file is open
\* and its first sections are written by then.
export_report ==
    IF df = None
    THEN /\ out' = Output("7", "None", <<"No data loaded.">>)
         /\ UNCHANGED <<df, filename, dashboard, report>>
         /\ Returns
    ELSE IF NCols(df[1]) = 0
    THEN /\ report' = Report(FALSE)
         /\ out' = Output("7", "None", <<>>)
         /\ UNCHANGED <<df, filename, dashboard>>
         /\ Raises
    ELSE /\ report' = Report(TRUE)
         /\ out' = Output("7", "None", <<"Report exported to">>)
         /\ UNCHANGED <<df, filename, dashboard>>
         /\ Returns

\* ----------------------------------------------------------------- Cleaner

\* Lines 135-138: each numeric column that has missing values is filled with
\* its median; columns col..NCols(t) are still to do.
RECURSIVE FillNumeric(_, _)
FillNumeric(t, col) ==
    IF col > NCols(t) THEN t
    ELSE IF col \in select_dtypes(t, {"number"}) /\ NullCount(t, col) > 0
         THEN FillNumeric(fillna(t, col, median(Column(t, col))), col + 1)
         ELSE FillNumeric(t, col + 1)

\* Lines 141-144: each object/str column that has missing values is filled
\* with mode()[0]; indexing an empty mode raises and ends the loop there.
RECURSIVE FillCategorical(_, _)
FillCategorical(t, col) ==
    IF col > NCols(t) THEN [frame |-> t, raised |-> FALSE]
    ELSE IF col \in select_dtypes(t, {"object", "str"}) /\ NullCount(t, col) > 0
         THEN IF mode(Column(t, col)) = <<>>
              THEN [frame |-> t, raised |-> TRUE]
              ELSE FillCategorical(
                       fillna(t, col, Txt(mode(Column(t, col))[1])), col + 1)
         ELSE FillCategorical(t, col + 1)

\* The body of clean_data on a loaded table t: the table it leaves, whether it
\* raised, and what it computed and printed.
Clean(t) ==
    LET initial_rows == NRows(t)
        duplicates == duplicated_sum(t)
        deduped == IF duplicates > 0 THEN drop_duplicates(t) ELSE t
        missing == isnull_sum_sum(deduped)
        filled == IF missing > 0
                  THEN FillCategorical(FillNumeric(deduped, 1), 1)
                  ELSE [frame |-> deduped, raised |-> FALSE]
        msgs == <<"DATA CLEANING",
                  IF duplicates > 0 THEN "Removed duplicate rows"
                  ELSE "No duplicate rows found">>
                \o (IF filled.raised THEN <<>>
                    ELSE <<IF missing > 0 THEN "Filled missing values"
                           ELSE "No missing values found",
                           "Rows before | Rows after">>)
    IN  [frame |-> filled.frame,
         raised |-> filled.raised,
         out |-> [Output("5", "None", msgs) EXCEPT
                     !.initial_rows = initial_rows,
                     !.duplicates = duplicates,
                     !.missing = missing,
                     !.final_rows = NRows(filled.frame),
                     !.deduped = Option(deduped)]]

clean_data ==
    IF df = None
    THEN /\ out' = Output("5", "None", <<"No data loaded.">>)
         /\ UNCHANGED <<df, filename, dashboard, report>>
         /\ Returns
    ELSE /\ df' = Option(Clean(df[1]).frame)
         /\ out' = Clean(df[1]).out
         /\ UNCHANGED <<filename, dashboard, report>>
         /\ IF Clean(df[1]).raised THEN Raises ELSE Returns

\* -------------------------------------------------------------- Visualizer

\* Mutant of Panels: the heatmap is drawn for a single numeric column.
Panels_heatmap_one_numeric(t) ==
    LET numeric_cols == select_dtypes(t, {"number"})
        categorical_cols == select_dtypes(t, {"object", "category", "str"})
    IN  (IF Cardinality(numeric_cols) > 0 THEN {1} ELSE {})
        \cup (IF Cardinality(categorical_cols) > 0 THEN {2} ELSE {})
        \cup (IF Cardinality(numeric_cols) >= 1 THEN {3} ELSE {})
        \cup (IF Cardinality(numeric_cols) >= 2 THEN {4} ELSE {})

\* The subplots create_visualizations draws on: 1 histogram, 2 bar chart,
\* 3 correlation heatmap, 4 scatter plot.
Panels(t) ==
    LET numeric_cols == select_dtypes(t, {"number"})
        categorical_cols == select_dtypes(t, {"object", "category", "str"})
    IN  (IF Cardinality(numeric_cols) > 0 THEN {1} ELSE {})
        \cup (IF Cardinality(categorical_cols) > 0 THEN {2} ELSE {})
        \cup (IF Cardinality(numeric_cols) >= 2 THEN {3} ELSE {})
        \cup (IF Cardinality(numeric_cols) >= 2 THEN {4} ELSE {})

create_visualizations ==
    IF df = None
    THEN /\ out' = Output("6", "None", <<"No data loaded.">>)
         /\ UNCHANGED <<df, filename, dashboard, report>>
         /\ Returns
    ELSE /\ dashboard' = Option([title |-> filename, panels |-> Panels(df[1])])
         /\ out' = [Output("6", "None",
                           <<"CREATING VISUALIZATIONS", "Dashboard saved to">>)
                       EXCEPT !.panels = Panels(df[1])]
         /\ UNCHANGED <<df, filename, report>>
         /\ Returns

\* --------------------------------------------------------------- Menu loop

\* DataAnalyzer.__init__, then main() at its first prompt; no output file is
\* assumed to exist.
Init ==
    /\ df = None
    /\ filename = None
    /\ pc = "prompt"
    /\ choice = <<>>
    /\ out = Output("", "None", <<>>)
    /\ dashboard = None
    /\ report = None

\* choice = input(...).strip(), compared with one menu entry.
Chosen(line, entry) ==
    /\ pc = "prompt"
    /\ strip(line) = entry
    /\ choice' = strip(line)

Menu1 ==
    \E line \in Choices, path \in FilePaths :
        Chosen(line, <<"1">>) /\ load_data(strip(path))

Menu2 == \E line \in Choices : Chosen(line, <<"2">>) /\ create_sample_data

Menu3 == \E line \in Choices : Chosen(line, <<"3">>) /\ show_overview

Menu4 == \E line \in Choices : Chosen(line, <<"4">>) /\ show_statistics

Menu5 == \E line \in Choices : Chosen(line, <<"5">>) /\ clean_data

Menu6 == \E line \in Choices : Chosen(line, <<"6">>) /\ create_visualizations

Menu7 == \E line \in Choices : Chosen(line, <<"7">>) /\ export_report

\* Lines 292-294: break leaves the loop and main() returns.
Menu8 ==
    \E line \in Choices :
        /\ Chosen(line, <<"8">>)
        /\ out' = Output("8", "None", <<"Goodbye">>)
        /\ pc' = "exited"
        /\ UNCHANGED <<df, filename, dashboard, report>>

\* Mutant of MenuElse: an invalid line leaves the loop.
MenuElse_breaks ==
    \E line \in Choices :
        /\ Chosen(line, strip(line))
        /\ strip(line) \notin {<<"1">>, <<"2">>, <<"3">>, <<"4">>,
                               <<"5">>, <<"6">>, <<"7">>, <<"8">>}
        /\ out' = Output("else", "None", <<"Invalid choice">>)
        /\ pc' = "exited"
        /\ UNCHANGED <<df, filename, dashboard, report>>

\* Lines 296-297: any other line.
MenuElse ==
    \E line \in Choices :
        /\ Chosen(line, strip(line))
        /\ strip(line) \notin {<<"1">>, <<"2">>, <<"3">>, <<"4">>,
                               <<"5">>, <<"6">>, <<"7">>, <<"8">>}
        /\ out' = Output("else", "None", <<"Invalid choice">>)
        /\ pc' = "prompt"
        /\ UNCHANGED <<df, filename, dashboard, report>>

Next ==
    \/ Menu1
    \/ Menu2
    \/ Menu3
    \/ Menu4
    \/ Menu5
    \/ Menu6
    \/ Menu7
    \/ Menu8
    \/ MenuElse

Spec == Init /\ [][Next]_vars

\* pd.read_csv returned t: no datetime column.
CsvReadable(t) == select_dtypes(t, {"datetime"}) = {}

\* A session right after load_data succeeded, from a fresh process, on any
\* well-typed table of one or two columns and at most MaxRows rows (a CSV
\* file, or a workbook for the tables with a datetime column); then clean_data
\* commands only.
InitClean ==
    \E dtypes \in Schemas, n \in 0..MaxRows :
      \E rows \in [1..n -> RowsOf(dtypes)] :
        LET t == Frame(dtypes, rows)
            filepath == IF CsvReadable(t) THEN <<"a", ".", "C", "S", "V">>
                        ELSE <<"c", ".", "x", "l", "s", "x">>
        IN  /\ WellTyped(t)
            /\ df = Loaded(filepath, t).df
            /\ filename = Loaded(filepath, t).filename
            /\ out = Loaded(filepath, t).out
            /\ choice = <<"1">>
            /\ pc = "prompt"
            /\ dashboard = None
            /\ report = None

NextClean == Menu5

SpecClean == InitClean /\ [][NextClean]_vars

\* ------------------------------------------------------------------ claims

\* Whether text s ends with the characters of ext, letter case ignored.
EndsWithCI(s, ext) ==
    /\ Len(s) >= Len(ext)
    /\ lower(SubSeq(s, Len(s) - Len(ext) + 1, Len(s))) = ext

SupportedExtension(path) ==
    \/ EndsWithCI(path, <<".", "c", "s", "v">>)
    \/ EndsWithCI(path, <<".", "x", "l", "s", "x">>)
    \/ EndsWithCI(path, <<".", "x", "l", "s">>)

NoDataMessages ==
    {<<"No data loaded.">>, <<"No data loaded. Please load a file first.">>}

MenuEntries ==
    {<<"1">>, <<"2">>, <<"3">>, <<"4">>, <<"5">>, <<"6">>, <<"7">>, <<"8">>}

\* C1: a load_data call whose path has no supported extension, or whose read
\* raises, returns False and leaves self.df and self.filename as they were,
\* whatever the session held before.
C1_FailedLoadKeepsSession ==
    [][(/\ out'.cmd = "1"
        /\ \/ ~SupportedExtension(out'.filepath[1])
           \/ out'.read = "raised")
       => (df' = df /\ filename' = filename /\ out'.ret = "False")]_vars

\* C1 witness: a read that raised while a table was loaded.
C1_Witness ==
    /\ out.cmd = "1"
    /\ out.read = "raised"
    /\ out.ret = "False"
    /\ df # None

\* C2: overview, statistics, clean, visualize and export_report called with
\* no table print a "no data" message, touch neither output file and leave the
\* session empty.
C2_NoTableIsNoOp ==
    [][(df = None /\ choice' \in {<<"3">>, <<"4">>, <<"5">>, <<"6">>, <<"7">>})
       => (/\ out'.msgs \in NoDataMessages
           /\ dashboard' = dashboard
           /\ report' = report
           /\ df' = None
           /\ filename = None
           /\ filename' = None)]_vars

\* C2 witness: export_report was called in a session that never held a table.
C2_Witness ==
    /\ choice = <<"7">>
    /\ df = None
    /\ out.msgs \in NoDataMessages
    /\ report = None

\* C3 (as claimed): a clean_data that follows a clean_data leaves the table as
\* it was, removes no duplicate row and fills no missing value.  Stated for
\* the tables the first run left without any missing value, where a second run
\* can differ only by the rows it removes.
C3_CleanTwiceClaimed ==
    [][(/\ out.cmd = "5" /\ choice' = <<"5">> /\ df # None
        /\ isnull_sum_sum(df[1]) = 0)
       => (/\ df' = df
           /\ out'.duplicates = 0
           /\ out'.missing = 0)]_vars

\* C4 (as claimed): after clean_data no column that held a value before the
\* call has a missing value, whatever its dtype.
C4_NoMissingLeftClaimed ==
    [][(choice' = <<"5">> /\ df # None)
       => \A col \in 1..NCols(df[1]) :
             NullCount(df[1], col) < NRows(df[1])
                => NullCount(df'[1], col) = 0]_vars

\* The positions of the rows that equal no earlier row.
FirstOccurrences(rows) ==
    {i \in 1..Len(rows) : \A j \in 1..(i - 1) : rows[j] # rows[i]}

\* The k-th smallest member of a set of integers.
Nth(S, k) == CHOOSE i \in S : Cardinality({j \in S : j < i}) = k - 1

\* C7: clean_data removes exactly the rows that equal an earlier row: the rows
\* left by the deduplication step are the first occurrences in their original
\* order, pairwise distinct, and the final row count is the initial one minus
\* the number of duplicates reported.
C7_DedupKeepsFirstOccurrences ==
    [][(choice' = <<"5">> /\ df # None /\ pc' = "prompt")
       => LET before == df[1].rows
              kept == FirstOccurrences(before)
              deduped == out'.deduped[1].rows
          IN  /\ out'.initial_rows = Len(before)
              /\ out'.duplicates = Len(before) - Cardinality(kept)
              /\ out'.msgs[2] = IF out'.duplicates > 0
                                THEN "Removed duplicate rows"
                                ELSE "No duplicate rows found"
              /\ deduped = [k \in 1..Cardinality(kept) |-> before[Nth(kept, k)]]
              /\ \A i, j \in 1..Len(deduped) : i # j => deduped[i] # deduped[j]
              /\ out'.final_rows = NRows(df'[1])
              /\ out'.final_rows = out'.initial_rows - out'.duplicates]_vars

\* C7 witness: the table (North,100),(South,200),(North,100) was cleaned: one
\* duplicate removed, two rows left.
C7_Witness ==
    /\ out.cmd = "5"
    /\ out.initial_rows = 3
    /\ out.duplicates = 1
    /\ out.final_rows = 2
    /\ df = Option(Frame(<<"object", "number">>,
                         << <<North, Num(100)>>, <<South, Num(200)>> >>))

\* C8 (as claimed): clean_data replaces each value missing after the
\* deduplication by the column's median (numeric) or most frequent value
\* (text), leaves the other values alone, and reports as filled the number of
\* values it replaced.  Stated for the tables every column of which holds a
\* value, so that a median or a most frequent value exists wherever one is
\* called for.
C8_ImputationClaimed ==
    [][(/\ choice' = <<"5">> /\ df # None /\ pc' = "prompt"
        /\ \A c \in 1..NCols(df[1]) : NullCount(df[1], c) < NRows(df[1]))
       => LET d == out'.deduped[1]
              after == df'[1]
              replaced == {<<i, c>> \in (1..NRows(d)) \X (1..NCols(d)) :
                              isnull(d.rows[i][c]) /\ ~isnull(after.rows[i][c])}
          IN  /\ NRows(after) = NRows(d)
              /\ \A i \in 1..NRows(d), c \in 1..NCols(d) :
                    IF ~isnull(d.rows[i][c])
                    THEN after.rows[i][c] = d.rows[i][c]
                    ELSE /\ d.dtypes[c] = "number" /\ NullCount(d, c) < NRows(d)
                            => after.rows[i][c] = median(Column(d, c))
                         /\ d.dtypes[c] = "object" /\ NullCount(d, c) < NRows(d)
                            => after.rows[i][c] \in
                                  {Txt(mode(Column(d, c))[q]) :
                                      q \in 1..Len(mode(Column(d, c)))}
              /\ out'.missing = Cardinality(replaced)]_vars

\* C5: the Idle/Loaded transitions of the menu loop: a load that succeeds
\* leaves a table, a load that fails and commands 3-7 keep a table present or
\* absent as it was, and a line that is no menu entry prints the error,
\* prompts again and changes neither the table nor the source name.
C5_MenuTransitions ==
    [][/\ (choice' \in {<<"1">>, <<"2">>} /\ out'.ret = "True") => df' # None
       /\ (choice' \in {<<"1">>, <<"2">>} /\ out'.ret # "True")
             => ((df' = None) <=> (df = None))
       /\ choice' \in {<<"3">>, <<"4">>, <<"5">>, <<"6">>, <<"7">>}
             => ((df' = None) <=> (df = None))
       /\ choice' \notin MenuEntries
             => (/\ out'.msgs = <<"Invalid choice">>
                 /\ pc' = "prompt"
                 /\ df' = df
                 /\ filename' = filename)]_vars

\* C5 witness: the line "01" was entered while a table was loaded.
C5_Witness ==
    /\ choice = <<"0", "1">>
    /\ out.msgs = <<"Invalid choice">>
    /\ df # None
    /\ pc = "prompt"

\* C6 (as claimed): the loop ends exactly on command 8, which is accepted with
\* or without a table; every other line, a failed load included, comes back
\* to the prompt and the process goes on.
C6_ExitOnlyOnEight ==
    /\ [](pc = "prompt" => ENABLED Menu8)
    /\ [][IF choice' = <<"8">> THEN pc' = "exited" ELSE pc' = "prompt"]_vars

\* C9: create_visualizations on a loaded table always writes the dashboard,
\* titled with the source name; the histogram is drawn iff there is a numeric
\* column, the bar chart iff there is a text column, the heatmap and the
\* scatter plot iff there are two numeric columns.
C9_PanelsFollowColumns ==
    [][(choice' = <<"6">> /\ df # None)
       => LET numeric == {c \in 1..NCols(df[1]) : df[1].dtypes[c] = "number"}
              textual == {c \in 1..NCols(df[1]) : df[1].dtypes[c] = "object"}
          IN  /\ dashboard' # None
              /\ dashboard'[1].title = filename
              /\ (1 \in dashboard'[1].panels) <=> (numeric # {})
              /\ (2 \in dashboard'[1].panels) <=> (textual # {})
              /\ (3 \in dashboard'[1].panels) <=> (Cardinality(numeric) >= 2)
              /\ (4 \in dashboard'[1].panels) <=> (Cardinality(numeric) >= 2)
              /\ dashboard'[1].panels \subseteq 1..4
              /\ out'.msgs = <<"CREATING VISUALIZATIONS", "Dashboard saved to">>
              /\ pc' = "prompt"]_vars

\* C9 witness: a dashboard was written for a table with no numeric column,
\* with the bar chart as its only panel.
C9_Witness ==
    /\ out.cmd = "6"
    /\ df # None
    /\ select_dtypes(df[1], {"number"}) = {}
    /\ dashboard # None
    /\ dashboard[1].panels = {2}

\* C10: the table is present exactly when the source name is, and a session
\* that holds a table holds one in every later state.
C10_TableIffNameAndStaysLoaded ==
    /\ []((df = None) <=> (filename = None))
    /\ [][df # None => df' # None]_vars

\* C10 witness: clean_data ran on a loaded table and the session still holds a
\* table and its name.
C10_Witness ==
    /\ out.cmd = "5"
    /\ out.msgs # <<"No data loaded.">>
    /\ df # None
    /\ filename # None

====
